---- MODULE Spec2Model ----
(***************************************************************************)
(* A model of the kproto codec core: src/proto/primitive.py,               *)
(* src/proto/primitives.py and src/proto/complex.py.                       *)
(*                                                                         *)
(* A Python object is a record [cls, v]: cls is its class, written as a    *)
(* sequence of names (<<"UInt8">>, <<"Array", "UInt8">> for Array[UInt8],  *)
(* <<"R">> for a composite class R), and v is its payload:                 *)
(*   int and its subclasses   v = [neg, mag], an arbitrary-precision       *)
(*                            integer, mag in base 256, little-endian,     *)
(*                            without high zero digits                     *)
(*   str and its subclasses   v = the sequence of code points              *)
(*   list and Array[T]        v = the sequence of elements (objects)       *)
(*   composite instances      v = the instance __dict__, a sequence of     *)
(*                            [name, val] entries                          *)
(*   None                     v = <<>>                                     *)
(* Array[T] written twice is taken to name one class (the program binds    *)
(* it once).  The IEEE-754 primitives E, Float and Double and raw float    *)
(* arguments are not modelled.                                             *)
(*                                                                         *)
(* Every operation returns Ok(value) or Err(exception name).               *)
(***************************************************************************)
EXTENDS Integers, Sequences, FiniteSets, TLC

Mk(cls, v) == [cls |-> cls, v |-> v]

None == Mk(<<"NoneType">>, <<>>)

Ok(x) == [ok |-> TRUE, val |-> x, err |-> ""]

Err(e) == [ok |-> FALSE, val |-> None, err |-> e]

Min2(a, b) == IF a < b THEN a ELSE b

(* ------------------------- slicing of bytes and lists ----------------- *)

\* data[:n]
SliceTo(data, n) == SubSeq(data, 1, Min2(n, Len(data)))

\* data[n:]
SliceFrom(data, n) == SubSeq(data, n + 1, Len(data))

\* data[a:b]
Slice(data, a, b) == SubSeq(data, a + 1, Min2(b, Len(data)))

(* ------------------------- Python int ---------------------------------- *)

RECURSIVE NatToMag(_)
NatToMag(n) == IF n = 0 THEN <<>> ELSE <<n % 256>> \o NatToMag(n \div 256)

RECURSIVE MagToNat(_)
MagToNat(mag) == IF mag = <<>> THEN 0 ELSE Head(mag) + 256 * MagToNat(Tail(mag))

\* the Python int n, for an n of at most 31 bits
PyInt(n) == [neg |-> n < 0, mag |-> NatToMag(IF n < 0 THEN 0 - n ELSE n)]

\* the value of a small Python int (a count, a length)
Nat2(x) == IF x.neg THEN 0 - MagToNat(x.mag) ELSE MagToNat(x.mag)

\* the digits without their high zeros
Strip(b) ==
    LET nz == {i \in 1..Len(b) : b[i] # 0}
    IN  IF nz = {} THEN <<>>
        ELSE SubSeq(b, 1, CHOOSE i \in nz : \A j \in nz : j <= i)

Pad(mag, n) == mag \o [i \in 1..(n - Len(mag)) |-> 0]

RECURSIVE AddOne(_)
AddOne(b) ==
    IF b = <<>> THEN <<>>
    ELSE IF Head(b) = 255 THEN <<0>> \o AddOne(Tail(b))
    ELSE <<Head(b) + 1>> \o Tail(b)

\* two's complement of a digit string of fixed length
TwosComp(b) == AddOne([i \in 1..Len(b) |-> 255 - b[i]])

Fits(n, length, signed) ==
    LET k == Len(n.mag)
    IN  IF ~signed THEN k <= length
        ELSE IF ~n.neg THEN k < length \/ (k = length /\ n.mag[k] < 128)
        ELSE \/ k < length
             \/ /\ k = length
                /\ \/ n.mag[k] < 128
                   \/ n.mag[k] = 128 /\ \A i \in 1..(k - 1) : n.mag[i] = 0

\* int.to_bytes(length, byteorder="little", signed=signed)
to_bytes(n, length, signed) ==
    IF n.neg /\ ~signed THEN Err("OverflowError")
    ELSE IF ~Fits(n, length, signed) THEN Err("OverflowError")
    ELSE Ok(IF n.neg THEN TwosComp(Pad(n.mag, length)) ELSE Pad(n.mag, length))

\* cls.from_bytes(data, byteorder="little", signed=signed)
from_bytes(cls, data, signed) ==
    IF signed /\ data # <<>> /\ data[Len(data)] >= 128
    THEN Mk(cls, [neg |-> TRUE, mag |-> Strip(TwosComp(data))])
    ELSE Mk(cls, [neg |-> FALSE, mag |-> Strip(data)])

(* ------------------------- Python str and UTF-8 ------------------------ *)

IsAscii(s) == s \in Seq(0..127)

EncodeCp(c) ==
    IF c < 128 THEN <<c>>
    ELSE IF c < 2048 THEN <<192 + (c \div 64), 128 + (c % 64)>>
    ELSE IF c < 65536
    THEN <<224 + (c \div 4096), 128 + ((c \div 64) % 64), 128 + (c % 64)>>
    ELSE <<240 + (c \div 262144), 128 + ((c \div 4096) % 64),
           128 + ((c \div 64) % 64), 128 + (c % 64)>>

IsSurrogate(c) == c >= 55296 /\ c <= 57343

RECURSIVE EncodeAll(_)
EncodeAll(s) == IF s = <<>> THEN <<>> ELSE EncodeCp(Head(s)) \o EncodeAll(Tail(s))

\* str.encode("utf8")
encode(s) ==
    IF IsAscii(s) THEN Ok(s)
    ELSE IF \E i \in 1..Len(s) : IsSurrogate(s[i]) THEN Err("UnicodeEncodeError")
    ELSE Ok(EncodeAll(s))

IsCont(b, i) == i <= Len(b) /\ b[i] >= 128 /\ b[i] < 192

\* the code point that starts at b[i] and its width, or width 0 when invalid
DecodeAt(b, i) ==
    LET b0 == b[i]
    IN  IF b0 < 128 THEN [w |-> 1, cp |-> b0]
        ELSE IF b0 >= 194 /\ b0 < 224 /\ IsCont(b, i + 1)
        THEN [w |-> 2, cp |-> (b0 - 192) * 64 + (b[i + 1] - 128)]
        ELSE IF b0 >= 224 /\ b0 < 240 /\ IsCont(b, i + 1) /\ IsCont(b, i + 2)
        THEN LET c == (b0 - 224) * 4096 + (b[i + 1] - 128) * 64 + (b[i + 2] - 128)
             IN  IF c < 2048 \/ IsSurrogate(c) THEN [w |-> 0, cp |-> 0]
                 ELSE [w |-> 3, cp |-> c]
        ELSE IF b0 >= 240 /\ b0 < 245 /\ IsCont(b, i + 1) /\ IsCont(b, i + 2)
                /\ IsCont(b, i + 3)
        THEN LET c == (b0 - 240) * 262144 + (b[i + 1] - 128) * 4096
                      + (b[i + 2] - 128) * 64 + (b[i + 3] - 128)
             IN  IF c < 65536 \/ c > 1114111 THEN [w |-> 0, cp |-> 0]
                 ELSE [w |-> 4, cp |-> c]
        ELSE [w |-> 0, cp |-> 0]

RECURSIVE DecodeFrom(_, _)
DecodeFrom(b, i) ==
    IF i > Len(b) THEN Ok(<<>>)
    ELSE LET d == DecodeAt(b, i)
         IN  IF d.w = 0 THEN Err("UnicodeDecodeError")
             ELSE LET rest == DecodeFrom(b, i + d.w)
                  IN  IF rest.ok THEN Ok(<<d.cp>> \o rest.val) ELSE rest

\* bytes.decode("utf8")
decode(b) == IF IsAscii(b) THEN Ok(b) ELSE DecodeFrom(b, 1)

(* ------------------------- state --------------------------------------- *)

VARIABLES
    op,         \* the last operation
    classes,    \* the composite classes defined so far, in definition order
    val,        \* the object the program holds (None before any is built)
    wire,       \* the result of the last val.serialize(), or NoResult
    buf,        \* the byte buffer handed to measure and deserialize
    rhs,        \* the right operand of the last comparison, else None
    res         \* the result of the last operation

vars == <<op, classes, val, wire, buf, rhs, res>>

(* ------------------------- classes ------------------------------------- *)

SignedNames == {"Int8", "Int16", "Int32", "Int64"}

UnsignedNames == {"UInt8", "UInt16", "UInt32", "UInt64"}

IntNames == SignedNames \cup UnsignedNames \cup {"Boolean"}

StrNames == {"Char", "String"}

\* the class attribute size
size(cls) ==
    CASE Head(cls) \in {"Int8", "UInt8", "Boolean"} -> 1
      [] Head(cls) \in {"Int16", "UInt16"} -> 2
      [] Head(cls) \in {"Int32", "UInt32"} -> 4
      [] Head(cls) \in {"Int64", "UInt64"} -> 8

IsIntLike(x) == Head(x.cls) \in IntNames \cup {"int"}

IsStrLike(x) == Head(x.cls) \in StrNames \cup {"str"}

IsListLike(x) == Head(x.cls) \in {"Array", "list"}

IsArray(x) == Head(x.cls) = "Array" /\ Len(x.cls) > 1

ClassNames == {classes[i].name : i \in 1..Len(classes)}

ClassOf(name) == classes[CHOOSE i \in 1..Len(classes) : classes[i].name = name]

IsComposite(x) == Head(x.cls) \in ClassNames

\* issubclass(t, Primitive)
IsPrimitiveType(t) ==
    Head(t) \in IntNames \cup StrNames \cup {"Array"} \cup ClassNames

\* issubclass(c, t)
IsSubclass(c, t) ==
    \/ c = t
    \/ t = <<"Int8">> /\ Head(c) \in SignedNames
    \/ t = <<"UInt8">> /\ Head(c) \in UnsignedNames
    \/ t = <<"Array">> /\ Head(c) = "Array"
    \/ t = <<"ComplexMappedType">> /\ Head(c) \in ClassNames
    \/ t = <<"ComplexDataType">> /\ Head(c) \in ClassNames
          /\ ClassOf(Head(c)).base = "ComplexDataType"
    \/ t = <<"Primitive">> /\ IsPrimitiveType(c)

IsInstance(x, t) == IsSubclass(x.cls, t)

\* isinstance(x, typing.Iterable)
IsIterable(x) == IsListLike(x) \/ IsStrLike(x)

\* list(x) of an iterable
ListOf(x) ==
    IF IsStrLike(x) THEN [i \in 1..Len(x.v) |-> Mk(<<"str">>, <<x.v[i]>>)]
    ELSE x.v

\* not x
Falsy(x) ==
    CASE IsIntLike(x) -> x.v.mag = <<>>
      [] IsStrLike(x) \/ IsListLike(x) -> x.v = <<>>
      [] x.cls = <<"NoneType">> -> TRUE
      [] IsComposite(x) -> FALSE

(* ------------------------- instance dictionaries ----------------------- *)

DictHas(d, name) == \E i \in 1..Len(d) : d[i].name = name

DictGet(d, name) == d[CHOOSE i \in 1..Len(d) : d[i].name = name].val

DictSet(d, name, x) ==
    IF DictHas(d, name)
    THEN [i \in 1..Len(d) |-> IF d[i].name = name THEN [name |-> name, val |-> x]
                              ELSE d[i]]
    ELSE Append(d, [name |-> name, val |-> x])

MapHas(m, name) == \E i \in 1..Len(m) : m[i].name = name

\* hasattr(cls, "map")
ClassHasMap(cls) == Head(cls) \in ClassNames /\ ClassOf(Head(cls)).hasMap

\* hasattr(self, "map")
HasMap(self) ==
    IsComposite(self) /\ (DictHas(self.v, "map") \/ ClassHasMap(self.cls))

\* getattr(self, name): the instance dictionary first, then the class; the
\* class attribute map is the dict object shared by the instances
GetAttr(self, name) ==
    IF DictHas(self.v, name) THEN Ok(DictGet(self.v, name))
    ELSE IF name = "map" /\ ClassHasMap(self.cls)
    THEN Ok(Mk(<<"dict">>, ClassOf(Head(self.cls)).map))
    ELSE Err("AttributeError")

\* name in container, for the objects self.map can be.  A container of
\* another kind (a str, a list) is outside the model.
Contains(container, name) ==
    CASE container.cls = <<"dict">> -> Ok(MapHas(container.v, name))
      [] IsIntLike(container) -> Err("TypeError")
      [] container.cls = <<"NoneType">> -> Err("TypeError")

(* ------------------------- constructors -------------------------------- *)

IsDigit(c) == c >= 48 /\ c <= 57

RECURSIVE DigitsToNat(_)
DigitsToNat(s) ==
    IF s = <<>> THEN 0
    ELSE 10 * DigitsToNat(SubSeq(s, 1, Len(s) - 1)) + (s[Len(s)] - 48)

\* int(s) of a str: an optional sign and decimal digits (white space and
\* underscores, which int() also accepts, are not in the model's inputs)
ParseInt(s) ==
    LET signed == s # <<>> /\ Head(s) \in {43, 45}
        digits == IF signed THEN Tail(s) ELSE s
    IN  IF digits = <<>> \/ \E i \in 1..Len(digits) : ~IsDigit(digits[i])
        THEN Err("ValueError")
        ELSE LET n == DigitsToNat(digits)
             IN  Ok([neg |-> signed /\ Head(s) = 45 /\ n # 0, mag |-> NatToMag(n)])

RECURSIVE NatToDigits(_)
NatToDigits(n) ==
    IF n < 10 THEN <<48 + n>> ELSE NatToDigits(n \div 10) \o <<48 + (n % 10)>>

\* str(x), for the kinds of object the model's inputs hand to Char and String
\* (a str, a small int, a Boolean with its __str__, None)
StrOf(x) ==
    CASE IsStrLike(x) -> x.v
      [] x.cls = <<"Boolean">> ->
            IF x.v.mag # <<>> THEN <<84, 114, 117, 101>> ELSE <<70, 97, 108, 115, 101>>
      [] IsIntLike(x) /\ x.cls # <<"Boolean">> ->
            (IF x.v.neg THEN <<45>> ELSE <<>>) \o NatToDigits(MagToNat(x.v.mag))
      [] x.cls = <<"NoneType">> -> <<78, 111, 110, 101>>

\* int.__new__(cls, x)
IntNew(cls, x) ==
    IF IsIntLike(x) THEN Ok(Mk(cls, x.v))
    ELSE IF IsStrLike(x)
    THEN LET n == ParseInt(x.v) IN IF n.ok THEN Ok(Mk(cls, n.val)) ELSE n
    ELSE Err("TypeError")

\* Char(value)
Char_init(cls, value) ==
    IF Falsy(value) THEN Err("ValueError") ELSE Ok(Mk(cls, StrOf(value)))

\* String(value)
String_new(cls, value) == Ok(Mk(cls, StrOf(value)))

RECURSIVE New(_, _)
RECURSIVE CoerceItems(_, _)
RECURSIVE Array_init(_, _)

\* the item as Array.__init__, append, insert and extend take it: kept when
\* it is an instance of the element type, else self.type(item)
Coerce(type, item) ==
    IF IsInstance(item, type) THEN Ok(item)
    ELSE LET r == New(type, item) IN IF r.ok THEN r ELSE Err("TypeError")

\* the loop of Array.__init__ over the items: the first item that cannot be
\* coerced ends it.  (The loops over the items of an array are evaluated by
\* halves, first half first, which keeps the evaluation shallow.)
CoerceItems(type, items) ==
    IF items = <<>> THEN Ok(<<>>)
    ELSE IF Len(items) = 1
    THEN LET c == Coerce(type, items[1]) IN IF c.ok THEN Ok(<<c.val>>) ELSE c
    ELSE LET h == Len(items) \div 2
             first == CoerceItems(type, SubSeq(items, 1, h))
         IN  IF ~first.ok THEN first
             ELSE LET rest == CoerceItems(type, SubSeq(items, h + 1, Len(items)))
                  IN  IF rest.ok THEN Ok(first.val \o rest.val) ELSE rest

\* Array[T](*items)
Array_init(cls, items) ==
    IF Len(cls) = 1 THEN Err("RuntimeError")
    ELSE LET list == IF Len(items) = 1 /\ IsIterable(items[1])
                     THEN ListOf(items[1]) ELSE items
             done == CoerceItems(Tail(cls), list)
         IN  IF done.ok THEN Ok(Mk(cls, done.val)) ELSE done

\* the loop of ComplexDataType.__init__ over kwargs: self.map is looked up
\* on the instance at every turn
RECURSIVE InitLoop(_, _, _)
InitLoop(self, kwargs, left) ==
    IF kwargs = <<>> THEN Ok([self |-> self, left |-> left])
    ELSE LET m == GetAttr(self, "map")
             k == Head(kwargs)
         IN  IF ~m.ok THEN m
             ELSE LET in == Contains(m.val, k.name)
                  IN  IF ~in.ok THEN in
                      ELSE IF ~in.val
                      THEN InitLoop(self, Tail(kwargs), Append(left, k))
                      ELSE InitLoop(Mk(self.cls, DictSet(self.v, k.name, k.val)),
                                    Tail(kwargs), left)

\* cls(**kwargs) of a class derived from ComplexDataType
ComplexDataType_init(cls, kwargs) ==
    LET r == InitLoop(Mk(cls, <<>>), kwargs, <<>>)
    IN  IF ~r.ok THEN r
        ELSE IF r.val.left # <<>> THEN Err("TypeError")
        ELSE Ok(r.val.self)

\* cls(**kwargs) of a composite class
CompositeNew(cls, kwargs) ==
    IF ClassOf(Head(cls)).base = "ComplexDataType"
    THEN ComplexDataType_init(cls, kwargs)
    ELSE IF kwargs # <<>> THEN Err("TypeError")
    ELSE Ok(Mk(cls, <<>>))

\* type(x): a call of the class with one positional argument
New(type, x) ==
    CASE Head(type) \in IntNames -> IntNew(type, x)
      [] Head(type) = "Char" -> Char_init(type, x)
      [] Head(type) = "String" -> String_new(type, x)
      [] Head(type) = "Array" -> Array_init(type, <<x>>)
      [] Head(type) \in ClassNames -> Err("TypeError")

(* ------------------------- primitives.py: scalars ---------------------- *)

Int8_serialize(self) ==
    IF IsIntLike(self) THEN to_bytes(self.v, 1, TRUE) ELSE Err("AttributeError")

Int16_serialize(self) ==
    IF IsIntLike(self) THEN to_bytes(self.v, 2, TRUE) ELSE Err("AttributeError")

Int32_serialize(self) ==
    IF IsIntLike(self) THEN to_bytes(self.v, 4, TRUE) ELSE Err("AttributeError")

Int64_serialize(self) ==
    IF IsIntLike(self) THEN to_bytes(self.v, 8, TRUE) ELSE Err("AttributeError")

Int8_deserialize(cls, data) == Ok(from_bytes(cls, SliceTo(data, size(cls)), TRUE))

Int8_measure(cls, data) == Ok(size(cls))

\* UInt8.serialize that keeps the low byte of a value too large for one byte
UInt8_serialize_masked(self) ==
    IF IsIntLike(self)
    THEN to_bytes([neg |-> self.v.neg, mag |-> Strip(SliceTo(self.v.mag, 1))], 1, FALSE)
    ELSE Err("AttributeError")

UInt8_serialize(self) ==
    IF IsIntLike(self) THEN to_bytes(self.v, 1, FALSE) ELSE Err("AttributeError")

UInt16_serialize(self) ==
    IF IsIntLike(self) THEN to_bytes(self.v, 2, FALSE) ELSE Err("AttributeError")

UInt32_serialize(self) ==
    IF IsIntLike(self) THEN to_bytes(self.v, 4, FALSE) ELSE Err("AttributeError")

UInt64_serialize(self) ==
    IF IsIntLike(self) THEN to_bytes(self.v, 8, FALSE) ELSE Err("AttributeError")

UInt8_deserialize(cls, data) == Ok(from_bytes(cls, SliceTo(data, size(cls)), FALSE))

UInt8_measure(cls, data) == Ok(size(cls))

Boolean_serialize(self) ==
    IF IsIntLike(self) THEN to_bytes(self.v, 1, FALSE) ELSE Err("AttributeError")

Boolean_deserialize(cls, data) == Ok(from_bytes(cls, data, FALSE))

Boolean_measure(cls, data) == Ok(size(cls))

\* self[0].encode("utf8")
Char_serialize(self) ==
    CASE IsStrLike(self) ->
            IF self.v = <<>> THEN Err("IndexError") ELSE encode(<<self.v[1]>>)
      [] IsListLike(self) ->
            IF self.v = <<>> THEN Err("IndexError")
            ELSE IF IsStrLike(self.v[1]) THEN encode(self.v[1].v)
            ELSE Err("AttributeError")
      [] OTHER -> Err("TypeError")

\* cls(chr(data[0]))
Char_deserialize(cls, data) ==
    IF data = <<>> THEN Err("IndexError")
    ELSE Char_init(cls, Mk(<<"str">>, <<data[1]>>))

Char_measure(cls, data) == Ok(1)

(* ------------------------- primitives.py: String ----------------------- *)

String_serialize(self) ==
    IF ~IsStrLike(self) THEN Err("AttributeError")
    ELSE LET encoded == encode(self.v)
         IN  IF ~encoded.ok THEN encoded
             ELSE LET header == to_bytes(PyInt(Len(encoded.val)), 2, FALSE)
                  IN  IF header.ok THEN Ok(header.val \o encoded.val) ELSE header

String_measure(cls, data) ==
    Ok(Nat2(from_bytes(<<"int">>, SliceTo(data, 2), FALSE).v) + 2)

String_deserialize(cls, data) ==
    LET text == decode(Slice(data, 2, String_measure(cls, data).val))
    IN  IF text.ok THEN String_new(cls, Mk(<<"str">>, text.val)) ELSE text

(* ------------------------- method resolution --------------------------- *)

RECURSIVE Serialize(_, _)
RECURSIVE Deserialize(_, _)
RECURSIVE Measure(_, _)
RECURSIVE Array_serialize(_)
RECURSIVE Array_deserialize(_, _)
RECURSIVE Array_measure(_, _)
RECURSIVE ComplexMappedType_serialize(_)
RECURSIVE ComplexMappedType_deserialize(_, _)
RECURSIVE ComplexMappedType_measure(_, _)

\* type.serialize(self)
Serialize(type, self) ==
    CASE Head(type) = "Int8" -> Int8_serialize(self)
      [] Head(type) = "Int16" -> Int16_serialize(self)
      [] Head(type) = "Int32" -> Int32_serialize(self)
      [] Head(type) = "Int64" -> Int64_serialize(self)
      [] Head(type) = "UInt8" -> UInt8_serialize(self)
      [] Head(type) = "UInt16" -> UInt16_serialize(self)
      [] Head(type) = "UInt32" -> UInt32_serialize(self)
      [] Head(type) = "UInt64" -> UInt64_serialize(self)
      [] Head(type) = "Boolean" -> Boolean_serialize(self)
      [] Head(type) = "Char" -> Char_serialize(self)
      [] Head(type) = "String" -> String_serialize(self)
      [] Head(type) = "Array" -> Array_serialize(self)
      [] Head(type) \in ClassNames -> ComplexMappedType_serialize(self)

\* type.deserialize(data)
Deserialize(type, data) ==
    CASE Head(type) \in SignedNames -> Int8_deserialize(type, data)
      [] Head(type) \in UnsignedNames -> UInt8_deserialize(type, data)
      [] Head(type) = "Boolean" -> Boolean_deserialize(type, data)
      [] Head(type) = "Char" -> Char_deserialize(type, data)
      [] Head(type) = "String" -> String_deserialize(type, data)
      [] Head(type) = "Array" -> Array_deserialize(type, data)
      [] Head(type) \in ClassNames -> ComplexMappedType_deserialize(type, data)

\* type.measure(data)
Measure(type, data) ==
    CASE Head(type) \in SignedNames -> Int8_measure(type, data)
      [] Head(type) \in UnsignedNames -> UInt8_measure(type, data)
      [] Head(type) = "Boolean" -> Boolean_measure(type, data)
      [] Head(type) = "Char" -> Char_measure(type, data)
      [] Head(type) = "String" -> String_measure(type, data)
      [] Head(type) = "Array" -> Array_measure(type, data)
      [] Head(type) \in ClassNames -> ComplexMappedType_measure(type, data)

(* ------------------------- primitives.py: Array ------------------------ *)

\* b"".join(map(type.serialize, items))
RECURSIVE JoinItems(_, _)
JoinItems(type, items) ==
    IF items = <<>> THEN Ok(<<>>)
    ELSE IF Len(items) = 1 THEN Serialize(type, items[1])
    ELSE LET h == Len(items) \div 2
             first == JoinItems(type, SubSeq(items, 1, h))
         IN  IF ~first.ok THEN first
             ELSE LET rest == JoinItems(type, SubSeq(items, h + 1, Len(items)))
                  IN  IF rest.ok THEN Ok(first.val \o rest.val) ELSE rest

Array_serialize(self) ==
    IF ~(IsListLike(self) \/ IsStrLike(self)) THEN Err("TypeError")
    ELSE LET header == UInt8_serialize(Mk(<<"UInt8">>, PyInt(Len(self.v))))
         IN  IF ~header.ok THEN header
             ELSE IF ~IsArray(self) THEN Err("AttributeError")
             ELSE LET items == JoinItems(Tail(self.cls), self.v)
                  IN  IF items.ok THEN Ok(header.val \o items.val) ELSE items

\* the loop of Array.measure: n more items from offset length
RECURSIVE MeasureItems(_, _, _, _)
MeasureItems(type, data, length, n) ==
    IF n = 0 THEN Ok(length)
    ELSE IF n = 1
    THEN LET m == Measure(type, SliceFrom(data, length))
         IN  IF m.ok THEN Ok(length + m.val) ELSE m
    ELSE LET first == MeasureItems(type, data, length, n \div 2)
         IN  IF ~first.ok THEN first
             ELSE MeasureItems(type, data, first.val, n - (n \div 2))

Array_measure(cls, data) ==
    LET length == UInt8_measure(<<"UInt8">>, data).val
        items == Nat2(UInt8_deserialize(<<"UInt8">>, data).val.v)
    IN  IF items > 0 /\ Len(cls) = 1 THEN Err("AttributeError")
        ELSE MeasureItems(Tail(cls), data, length, items)

\* the loop of Array.deserialize: n more items from offset; the items and
\* the offset after them
RECURSIVE DeserializeItems(_, _, _, _)
DeserializeItems(type, data, offset, n) ==
    IF n = 0 THEN Ok([items |-> <<>>, offset |-> offset])
    ELSE IF n = 1
    THEN LET item == Deserialize(type, SliceFrom(data, offset))
             m == Measure(type, SliceFrom(data, offset))
         IN  IF ~item.ok THEN item
             ELSE IF ~m.ok THEN m
             ELSE Ok([items |-> <<item.val>>, offset |-> offset + m.val])
    ELSE LET first == DeserializeItems(type, data, offset, n \div 2)
         IN  IF ~first.ok THEN first
             ELSE LET rest == DeserializeItems(type, data, first.val.offset,
                                               n - (n \div 2))
                  IN  IF ~rest.ok THEN rest
                      ELSE Ok([items |-> first.val.items \o rest.val.items,
                               offset |-> rest.val.offset])

Array_deserialize(cls, data) ==
    LET whole == Array_measure(cls, data)
    IN  IF ~whole.ok THEN whole
        ELSE LET cut == SliceTo(data, whole.val)
                 length == Nat2(UInt8_deserialize(<<"UInt8">>, cut).val.v)
                 offset == UInt8_measure(<<"UInt8">>, cut).val
                 items == DeserializeItems(Tail(cls), cut, offset, length)
             IN  IF ~items.ok THEN items
                 ELSE Array_init(cls, <<Mk(<<"list">>, items.val.items)>>)

(* ------------------------- complex.py: ComplexMappedType --------------- *)

\* self.map.items(), cls.map.items()
DictItems(container) ==
    IF container.cls = <<"dict">> THEN Ok(container.v) ELSE Err("AttributeError")

\* the loop of ComplexMappedType.serialize over the field-map
RECURSIVE SerializeFields(_, _)
SerializeFields(self, fields) ==
    IF fields = <<>> THEN Ok(<<>>)
    ELSE LET value == GetAttr(self, Head(fields).name)
         IN  IF ~value.ok THEN value
             ELSE LET built == IF IsInstance(value.val, <<"Primitive">>) THEN value
                               ELSE New(Head(fields).type, value.val)
                  IN  IF ~built.ok THEN built
                      ELSE LET first == Serialize(built.val.cls, built.val)
                           IN  IF ~first.ok THEN first
                               ELSE LET rest == SerializeFields(self, Tail(fields))
                                    IN  IF rest.ok THEN Ok(first.val \o rest.val)
                                        ELSE rest

ComplexMappedType_serialize(self) ==
    IF ~HasMap(self) THEN Err("ValueError")
    ELSE LET fields == DictItems(GetAttr(self, "map").val)
         IN  IF ~fields.ok THEN fields ELSE SerializeFields(self, fields.val)

\* the loop of ComplexMappedType.measure over the field-map
RECURSIVE MeasureFields(_, _, _)
MeasureFields(fields, data, length) ==
    IF fields = <<>> THEN Ok(length)
    ELSE LET m == Measure(Head(fields).type, SliceFrom(data, length))
         IN  IF ~m.ok THEN m ELSE MeasureFields(Tail(fields), data, length + m.val)

\* ComplexMappedType.measure without its hasattr check: cls.map is looked up
\* and found missing
ComplexMappedType_measure_unchecked(cls, data) ==
    IF ~ClassHasMap(cls) THEN Err("AttributeError")
    ELSE MeasureFields(ClassOf(Head(cls)).map, data, 0)

ComplexMappedType_measure(cls, data) ==
    IF ~ClassHasMap(cls) THEN Err("ValueError")
    ELSE MeasureFields(ClassOf(Head(cls)).map, data, 0)

\* the loop of ComplexMappedType.deserialize over the field-map
RECURSIVE DeserializeFields(_, _, _)
DeserializeFields(fields, data, offset) ==
    IF fields = <<>> THEN Ok(<<>>)
    ELSE LET value == Deserialize(Head(fields).type, SliceFrom(data, offset))
             m == Measure(Head(fields).type, SliceFrom(data, offset))
         IN  IF ~value.ok THEN value
             ELSE IF ~m.ok THEN m
             ELSE LET rest == DeserializeFields(Tail(fields), data, offset + m.val)
                  IN  IF ~rest.ok THEN rest
                      ELSE Ok(<<[name |-> Head(fields).name, val |-> value.val]>>
                              \o rest.val)

ComplexMappedType_deserialize(cls, data) ==
    IF ~ClassHasMap(cls) THEN Err("ValueError")
    ELSE LET whole == ComplexMappedType_measure(cls, data)
         IN  IF ~whole.ok THEN whole
             ELSE LET kwargs == DeserializeFields(ClassOf(Head(cls)).map,
                                                  SliceTo(data, whole.val), 0)
                  IN  IF ~kwargs.ok THEN kwargs ELSE CompositeNew(cls, kwargs.val)

(* ------------------------- complex.py: ComplexDataType ----------------- *)

\* cls.__annotations__ filtered by issubclass(primitive, Primitive), in the
\* order written
RECURSIVE PrimitiveFields(_)
PrimitiveFields(annotations) ==
    IF annotations = <<>> THEN <<>>
    ELSE (IF IsPrimitiveType(Head(annotations).type) THEN <<Head(annotations)>>
          ELSE <<>>) \o PrimitiveFields(Tail(annotations))

\* the class a class statement leaves: ComplexDataType.__init_subclass__ sets
\* cls.map; a class derived from ComplexMappedType alone gets no map
init_subclass(decl) ==
    IF decl.base = "ComplexDataType"
    THEN [name |-> decl.name, base |-> decl.base, hasMap |-> TRUE,
          map |-> PrimitiveFields(decl.annotations)]
    ELSE [name |-> decl.name, base |-> decl.base, hasMap |-> FALSE, map |-> <<>>]

\* for attr in self.map, self.map.keys(): the names, for the objects self.map
\* can be
Keys(container) ==
    CASE container.cls = <<"dict">> -> Ok(container.v)
      [] IsIntLike(container) -> Err("TypeError")
      [] container.cls = <<"NoneType">> -> Err("TypeError")

IsDataInstance(x) ==
    IsComposite(x) /\ ClassOf(Head(x.cls)).base = "ComplexDataType"

RECURSIVE PyEq(_, _)
RECURSIVE EqItems(_, _)
RECURSIVE EqFields(_, _, _)

\* a == b of two lists of one length: the first pair that differs decides
EqItems(a, b) ==
    IF a = <<>> THEN Ok(TRUE)
    ELSE IF Len(a) = 1 THEN PyEq(a[1], b[1])
    ELSE LET h == Len(a) \div 2
             first == EqItems(SubSeq(a, 1, h), SubSeq(b, 1, h))
         IN  IF ~first.ok \/ ~first.val THEN first
             ELSE EqItems(SubSeq(a, h + 1, Len(a)), SubSeq(b, h + 1, Len(b)))

\* the loop of ComplexDataType.__eq__ over self.map
EqFields(self, other, fields) ==
    IF fields = <<>> THEN Ok(TRUE)
    ELSE LET mine == GetAttr(self, Head(fields).name)
             theirs == GetAttr(other, Head(fields).name)
         IN  IF ~mine.ok THEN mine
             ELSE IF ~theirs.ok THEN theirs
             ELSE LET same == PyEq(mine.val, theirs.val)
                  IN  IF ~same.ok \/ ~same.val THEN same
                      ELSE EqFields(self, other, Tail(fields))

\* ComplexDataType.__eq__(self, other); NotImplemented is Err("NotImplemented")
ComplexDataType_eq(self, other) ==
    IF ~IsInstance(other, <<"ComplexMappedType">>) THEN Err("NotImplemented")
    ELSE LET fields == Keys(GetAttr(self, "map").val)
         IN  IF ~fields.ok THEN fields ELSE EqFields(self, other, fields.val)

\* a == b as Python evaluates it: a's __eq__, then b's reflected one, then
\* identity (the model's objects are distinct objects)
PyEq(a, b) ==
    CASE IsIntLike(a) /\ IsIntLike(b) -> Ok(a.v = b.v)
      [] IsStrLike(a) /\ IsStrLike(b) -> Ok(a.v = b.v)
      [] IsListLike(a) /\ IsListLike(b) ->
            IF Len(a.v) # Len(b.v) THEN Ok(FALSE) ELSE EqItems(a.v, b.v)
      [] a.cls = <<"dict">> /\ b.cls = <<"dict">> -> Ok(a.v = b.v)
      [] a = None /\ b = None -> Ok(TRUE)
      [] IsDataInstance(a) ->
            LET r == ComplexDataType_eq(a, b)
            IN  IF r.err = "NotImplemented" THEN Ok(FALSE) ELSE r
      [] IsDataInstance(b) /\ ~IsDataInstance(a) ->
            LET r == ComplexDataType_eq(b, a)
            IN  IF r.err = "NotImplemented" THEN Ok(FALSE) ELSE r
      [] OTHER -> Ok(FALSE)

\* the loop of ComplexDataType.__repr__ over self.map.keys()
RECURSIVE ReprFields(_, _)
ReprFields(self, fields) ==
    IF fields = <<>> THEN Ok(<<>>)
    ELSE LET value == GetAttr(self, Head(fields).name)
         IN  IF ~value.ok THEN value
             ELSE LET rest == ReprFields(self, Tail(fields))
                  IN  IF ~rest.ok THEN rest
                      ELSE Ok(<<[name |-> Head(fields).name, val |-> value.val]>>
                              \o rest.val)

\* ComplexDataType.__repr__(self): the qualname and the name=value pairs the
\* text is made of (the rendering of a value is its own repr)
ComplexDataType_repr(self) ==
    LET m == GetAttr(self, "map")
        fields == IF m.ok /\ m.val.cls = <<"dict">> THEN Ok(m.val.v)
                  ELSE Err("AttributeError")
    IN  IF ~fields.ok THEN fields
        ELSE LET kwargs == ReprFields(self, fields.val)
             IN  IF ~kwargs.ok THEN kwargs
                 ELSE Ok([qualname |-> Head(self.cls), kwargs |-> kwargs.val])

(* ------------------------- primitives.py: Array as a list -------------- *)

\* the position a list index names: negative ones count from the end
Position(n, index) == IF index < 0 THEN index + n ELSE index

\* list.insert(index, item): the index is clamped to the list
ListInsert(list, index, item) ==
    LET p == Position(Len(list), index)
        at == IF p < 0 THEN 0 ELSE IF p > Len(list) THEN Len(list) ELSE p
    IN  SubSeq(list, 1, at) \o <<item>> \o SubSeq(list, at + 1, Len(list))

\* list.pop(index): the list without the item, and the item
ListPop(list, index) ==
    LET p == Position(Len(list), index)
    IN  IF list = <<>> \/ p < 0 \/ p >= Len(list) THEN Err("IndexError")
        ELSE Ok([list |-> SubSeq(list, 1, p) \o SubSeq(list, p + 2, Len(list)),
                 item |-> list[p + 1]])

\* every method of Array returns [self, ret]: the array after the call and
\* what the call returned or raised

Array_copy(self) ==
    [self |-> self, ret |-> Array_init(self.cls, <<Mk(<<"list">>, self.v)>>)]

Array_append(self, item) ==
    LET c == Coerce(Tail(self.cls), item)
    IN  IF ~c.ok THEN [self |-> self, ret |-> c]
        ELSE [self |-> Mk(self.cls, Append(self.v, c.val)), ret |-> Ok(None)]

Array_insert(self, index, item) ==
    LET c == Coerce(Tail(self.cls), item)
    IN  IF ~c.ok THEN [self |-> self, ret |-> c]
        ELSE [self |-> Mk(self.cls, ListInsert(self.v, index, c.val)),
              ret |-> Ok(None)]

\* the items before the first that cannot be coerced are appended
RECURSIVE Array_extend(_, _)
Array_extend(self, items) ==
    IF items = <<>> THEN [self |-> self, ret |-> Ok(None)]
    ELSE LET c == Coerce(Tail(self.cls), Head(items))
         IN  IF ~c.ok THEN [self |-> self, ret |-> c]
             ELSE Array_extend(Mk(self.cls, Append(self.v, c.val)), Tail(items))

\* super().pop(__index), whose result is dropped
Array_pop(self, index) ==
    LET r == ListPop(self.v, index)
    IN  IF ~r.ok THEN [self |-> self, ret |-> r]
        ELSE [self |-> Mk(self.cls, r.val.list), ret |-> Ok(None)]

\* self[index] = item: list.__setitem__, which Array does not override
list_setitem(self, index, item) ==
    LET p == Position(Len(self.v), index)
    IN  IF p < 0 \/ p >= Len(self.v) THEN [self |-> self, ret |-> Err("IndexError")]
        ELSE [self |-> Mk(self.cls, [self.v EXCEPT ![p + 1] = item]),
              ret |-> Ok(None)]

\* self += iterable: list.__iadd__, which Array does not override
list_iadd(self, iterable) ==
    IF ~IsIterable(iterable) THEN [self |-> self, ret |-> Err("TypeError")]
    ELSE [self |-> Mk(self.cls, self.v \o ListOf(iterable)), ret |-> Ok(None)]

(* ------------------------- the program's inputs ------------------------ *)

\* an Array grows by the mutators up to MaxLen items, and from the header's
\* 255 up to 255 + MaxOver; a proper prefix of an encoding is cut at up to
\* MaxCut bytes or one byte short
MaxLen == 2

MaxOver == 1

MaxCut == 2

RawInt(n) == Mk(<<"int">>, PyInt(n))

RawStr(s) == Mk(<<"str">>, s)

RawList(items) == Mk(<<"list">>, items)

Signed(type) == Head(type) \in SignedNames

\* the largest and the smallest value of an integer type
MaxOf(type) ==
    Mk(<<"int">>, [neg |-> FALSE,
                   mag |-> [i \in 1..size(type) |->
                              IF i = size(type) /\ Signed(type) THEN 127 ELSE 255]])

MinOf(type) ==
    IF Signed(type)
    THEN Mk(<<"int">>, [neg |-> TRUE,
                        mag |-> [i \in 1..size(type) |->
                                   IF i = size(type) THEN 128 ELSE 0]])
    ELSE RawInt(0)

Repeat(x, n) == [i \in 1..n |-> x]

Kw(name, x) == [name |-> name, val |-> x]

Field(name, type) == [name |-> name, type |-> type]

\* the class statements of the program, in the order they run
Decls ==
    << [name |-> "R", base |-> "ComplexDataType",
        annotations |-> <<Field("a", <<"UInt8">>), Field("b", <<"String">>)>>],
       [name |-> "B", base |-> "ComplexDataType",
        annotations |-> <<Field("f", <<"Boolean">>), Field("n", <<"UInt8">>)>>],
       [name |-> "M", base |-> "ComplexDataType",
        annotations |-> <<Field("map", <<"UInt8">>), Field("z", <<"UInt8">>)>>],
       [name |-> "Em", base |-> "ComplexDataType",
        annotations |-> <<Field("q", <<"int">>)>>],
       [name |-> "A1", base |-> "ComplexDataType",
        annotations |-> <<Field("x", <<"UInt8">>)>>],
       [name |-> "C1", base |-> "ComplexDataType",
        annotations |-> <<Field("x", <<"UInt8">>), Field("note", <<"str">>),
                          Field("y", <<"UInt8">>)>>],
       [name |-> "N", base |-> "ComplexDataType",
        annotations |-> <<Field("inner", <<"R">>), Field("k", <<"UInt8">>)>>],
       [name |-> "X", base |-> "ComplexMappedType", annotations |-> <<>>] >>

Ctor(cls, args, kwargs) == [cls |-> cls, args |-> args, kwargs |-> kwargs]

IntTypes ==
    << <<"Int8">>, <<"Int16">>, <<"Int32">>, <<"Int64">>,
       <<"UInt8">>, <<"UInt16">>, <<"UInt32">>, <<"UInt64">> >>

\* T(0), T(-1), T(min), T(max) of every integer type
IntCalls ==
    [i \in 1..(4 * Len(IntTypes)) |->
        LET type == IntTypes[((i - 1) \div 4) + 1]
        IN  Ctor(type,
                 << CASE i % 4 = 0 -> RawInt(0)
                      [] i % 4 = 1 -> RawInt(-1)
                      [] i % 4 = 2 -> MinOf(type)
                      [] i % 4 = 3 -> MaxOf(type) >>,
                 <<>>)]

ScalarCalls ==
    << Ctor(<<"Boolean">>, <<RawInt(0)>>, <<>>),
       Ctor(<<"Boolean">>, <<RawInt(1)>>, <<>>),
       Ctor(<<"UInt8">>, <<RawStr(<<122, 122>>)>>, <<>>),
       Ctor(<<"UInt8">>, <<None>>, <<>>),
       Ctor(<<"Char">>, <<RawStr(<<97>>)>>, <<>>),
       Ctor(<<"Char">>, <<RawStr(<<233>>)>>, <<>>),
       Ctor(<<"Char">>, <<RawStr(<<97, 98>>)>>, <<>>),
       Ctor(<<"Char">>, <<RawStr(<<>>)>>, <<>>),
       Ctor(<<"String">>, <<RawStr(<<>>)>>, <<>>),
       Ctor(<<"String">>, <<RawStr(<<104, 105>>)>>, <<>>),
       Ctor(<<"String">>, <<RawStr(<<233, 8364>>)>>, <<>>),
       Ctor(<<"String">>, <<RawStr(Repeat(97, 256 * 256 - 1))>>, <<>>),
       Ctor(<<"String">>, <<RawStr(Repeat(97, 256 * 256))>>, <<>>) >>

ArrayCalls ==
    << Ctor(<<"Array">>, <<>>, <<>>),
       Ctor(<<"Array", "UInt8">>, <<>>, <<>>),
       Ctor(<<"Array", "UInt8">>, <<RawInt(1), RawInt(2), RawInt(3)>>, <<>>),
       Ctor(<<"Array", "UInt8">>, <<RawStr(<<49, 50>>)>>, <<>>),
       Ctor(<<"Array", "UInt8">>, <<RawList(<<RawInt(1), RawStr(<<122, 122>>)>>)>>,
            <<>>),
       Ctor(<<"Array", "UInt8">>, <<RawList(Repeat(RawInt(7), 256 - 1))>>, <<>>),
       Ctor(<<"Array", "UInt8">>, <<RawList(Repeat(RawInt(7), 256))>>, <<>>),
       Ctor(<<"Array", "Boolean">>, <<RawList(<<RawInt(0), RawInt(1)>>)>>, <<>>),
       Ctor(<<"Array", "Int16">>, <<RawList(<<RawInt(-1), RawInt(300)>>)>>, <<>>),
       Ctor(<<"Array", "String">>,
            <<RawList(<<RawStr(<<104, 105>>), RawStr(<<>>)>>)>>, <<>>),
       Ctor(<<"Array", "Array", "UInt8">>,
            <<RawList(<<RawList(<<RawInt(1), RawInt(2)>>),
                        RawList(<<RawInt(3)>>)>>)>>, <<>>) >>

AnR == Mk(<<"R">>, <<Kw("a", RawInt(1)), Kw("b", RawStr(<<120>>))>>)

CompositeCalls ==
    << Ctor(<<"R">>, <<>>, <<Kw("a", RawInt(5)), Kw("b", RawStr(<<111, 107>>))>>),
       Ctor(<<"R">>, <<>>, <<Kw("a", Mk(<<"UInt8">>, PyInt(5))),
                             Kw("b", Mk(<<"String">>, <<111, 107>>))>>),
       Ctor(<<"R">>, <<>>, <<Kw("a", Mk(<<"UInt16">>, PyInt(5))),
                             Kw("b", RawStr(<<111, 107>>))>>),
       Ctor(<<"R">>, <<>>, <<Kw("a", RawInt(5))>>),
       Ctor(<<"R">>, <<>>, <<Kw("a", RawInt(5)), Kw("w", RawInt(1))>>),
       Ctor(<<"B">>, <<>>, <<Kw("f", RawInt(1)), Kw("n", RawInt(2))>>),
       Ctor(<<"M">>, <<>>, <<Kw("z", RawInt(1))>>),
       Ctor(<<"M">>, <<>>, <<Kw("z", RawInt(1)), Kw("map", RawInt(5))>>),
       Ctor(<<"M">>, <<>>, <<Kw("map", RawInt(5)), Kw("z", RawInt(1))>>),
       Ctor(<<"Em">>, <<>>, <<>>),
       Ctor(<<"A1">>, <<>>, <<Kw("x", RawInt(1))>>),
       Ctor(<<"A1">>, <<>>, <<>>),
       Ctor(<<"C1">>, <<>>, <<Kw("x", RawInt(1)), Kw("y", RawInt(2))>>),
       Ctor(<<"C1">>, <<>>, <<Kw("x", RawInt(3)), Kw("y", RawInt(2))>>),
       Ctor(<<"N">>, <<>>, <<Kw("inner", AnR), Kw("k", RawInt(2))>>),
       Ctor(<<"X">>, <<>>, <<>>) >>

Calls == IntCalls \o ArrayCalls \o ScalarCalls \o CompositeCalls

\* the call c.cls(*c.args, **c.kwargs)
Call(c) ==
    CASE Head(c.cls) = "Array" -> Array_init(c.cls, c.args)
      [] Head(c.cls) \in ClassNames -> CompositeNew(c.cls, c.kwargs)
      [] OTHER -> New(c.cls, c.args[1])

\* the items handed to append, insert and item assignment
Items == <<RawStr(<<50>>), RawStr(<<122, 122>>), RawInt(7)>>

\* the iterables handed to extend and +=
Iterables ==
    << RawList(<<RawInt(7), RawStr(<<50>>)>>),
       RawList(<<RawInt(7), RawStr(<<122, 122>>)>>),
       RawStr(<<51>>) >>

Indices == <<0, 1, -1, 5>>

\* buffers that are no encoding of the object at hand
Buffers == << <<>>, <<5>>, <<3, 0, 1>> >>

\* bytes that follow an encoding in a buffer
Tails == << <<255>>, <<0, 1>> >>

(* ------------------------- the program ---------------------------------- *)

NoResult == Err("")

\* what a call returned, as the object it is: the bytes of serialize, the int
\* of measure, the bool of ==, the str of repr
Returned(r, type) == IF r.ok THEN Ok(Mk(<<type>>, r.val)) ELSE r

ReturnedInt(r) == IF r.ok THEN Ok(Mk(<<"int">>, PyInt(r.val))) ELSE r

\* every class statement has run
Ready == Len(classes) = Len(Decls)

Init ==
    /\ classes = <<>>
    /\ val = None
    /\ rhs = None
    /\ wire = NoResult
    /\ buf = <<>>
    /\ res = NoResult
    /\ op = "init"

\* The program changes and compares its object before it encodes it: these
\* calls read no buffer and leave none, so taken later they would lead to the
\* states they lead to from here.
Unencoded == wire = NoResult /\ buf = <<>>

\* the next class statement runs: __init_subclass__ computes the field-map
DefineClass ==
    /\ ~Ready
    /\ classes' = Append(classes, init_subclass(Decls[Len(classes) + 1]))
    /\ op' = "class"
    /\ UNCHANGED <<val, rhs, wire, buf, res>>

\* val = T(...): the program builds the object it then works on
Construct ==
    /\ Ready
    /\ val = None
    /\ \E i \in 1..Len(Calls) :
          LET r == Call(Calls[i])
          IN  /\ val' = IF r.ok THEN r.val ELSE val
              /\ res' = IF r.ok THEN Ok(None) ELSE r
    /\ rhs' = None
    /\ wire' = NoResult
    /\ buf' = <<>>
    /\ op' = "construct"
    /\ UNCHANGED classes

\* val.junk = 4: an attribute the field-map does not name
SetAttr ==
    /\ Ready
    /\ IsComposite(val)
    /\ Unencoded
    /\ ~DictHas(val.v, "junk")
    /\ val' = Mk(val.cls, DictSet(val.v, "junk", RawInt(4)))
    /\ rhs' = None
    /\ wire' = NoResult
    /\ buf' = <<>>
    /\ res' = Ok(None)
    /\ op' = "setattr"
    /\ UNCHANGED classes

\* buf = val.serialize()
DoSerialize ==
    /\ Ready
    /\ val # None
    /\ wire' = Returned(Serialize(val.cls, val), "bytes")
    /\ buf' = IF wire'.ok THEN wire'.val.v ELSE <<>>
    /\ res' = wire'
    /\ rhs' = None
    /\ op' = "serialize"
    /\ UNCHANGED <<classes, val>>

\* the caller appends bytes to the encoding
AddTail ==
    /\ wire.ok
    /\ buf = wire.val.v
    /\ \E i \in 1..Len(Tails) : buf' = buf \o Tails[i]
    /\ res' = Ok(None)
    /\ rhs' = None
    /\ op' = "buffer"
    /\ UNCHANGED <<classes, val, wire>>

\* the caller keeps a proper prefix of the encoding
Truncate ==
    /\ wire.ok
    /\ buf = wire.val.v
    /\ \E k \in 0..(Len(buf) - 1) :
          /\ k <= MaxCut \/ k = Len(buf) - 1
          /\ buf' = SliceTo(buf, k)
    /\ res' = Ok(None)
    /\ rhs' = None
    /\ op' = "buffer"
    /\ UNCHANGED <<classes, val, wire>>

\* the caller hands in a buffer of its own
Feed ==
    /\ Ready
    /\ val # None
    /\ \E i \in 1..Len(Buffers) : buf' = Buffers[i]
    /\ res' = Ok(None)
    /\ rhs' = None
    /\ op' = "buffer"
    /\ UNCHANGED <<classes, val, wire>>

\* type(val).measure(buf)
DoMeasure ==
    /\ Ready
    /\ val # None
    /\ res' = ReturnedInt(Measure(val.cls, buf))
    /\ rhs' = None
    /\ op' = "measure"
    /\ UNCHANGED <<classes, val, wire, buf>>

\* type(val).deserialize(buf)
DoDeserialize ==
    /\ Ready
    /\ val # None
    /\ res' = Deserialize(val.cls, buf)
    /\ rhs' = None
    /\ op' = "deserialize"
    /\ UNCHANGED <<classes, val, wire, buf>>

\* val == T(...), with or without an attribute outside T's field-map
DoEq ==
    /\ Ready
    /\ IsDataInstance(val)
    /\ Unencoded
    /\ \E i \in 1..Len(CompositeCalls), junk \in BOOLEAN :
          LET b == Call(CompositeCalls[i])
          IN  /\ b.ok
              /\ rhs' = IF junk
                          THEN Mk(b.val.cls, DictSet(b.val.v, "junk", RawInt(9)))
                          ELSE b.val
    /\ res' = Returned(PyEq(val, rhs'), "bool")
    /\ op' = "eq"
    /\ UNCHANGED <<classes, val, wire, buf>>

\* repr(val)
DoRepr ==
    /\ Ready
    /\ IsDataInstance(val)
    /\ Unencoded
    /\ res' = Returned(ComplexDataType_repr(val), "str")
    /\ rhs' = None
    /\ op' = "repr"
    /\ UNCHANGED <<classes, val, wire, buf>>

\* whether the bounds let the array take n more items
CanGrow(self, n) ==
    \/ Len(self.v) + n <= MaxLen
    \/ Len(self.v) >= 256 - 1 /\ Len(self.v) + n <= 256 - 1 + MaxOver

\* the bounds keep the rhs mutators to the short arrays
IsShort(self) == Len(self.v) <= MaxLen + 1

\* the array after a method call, and what the call returned
Mutated(r, name) ==
    /\ val' = r.self
    /\ res' = r.ret
    /\ rhs' = None
    /\ wire' = NoResult
    /\ buf' = <<>>
    /\ op' = name
    /\ UNCHANGED classes

DoAppend ==
    /\ IsArray(val)
    /\ Unencoded
    /\ CanGrow(val, 1)
    /\ \E i \in 1..Len(Items) : Mutated(Array_append(val, Items[i]), "append")

DoInsert ==
    /\ IsArray(val)
    /\ Unencoded
    /\ CanGrow(val, 1)
    /\ \E i \in 1..Len(Items), j \in 1..Len(Indices) :
          Mutated(Array_insert(val, Indices[j], Items[i]), "insert")

DoExtend ==
    /\ IsArray(val)
    /\ Unencoded
    /\ \E i \in 1..Len(Iterables) :
          /\ CanGrow(val, Len(ListOf(Iterables[i])))
          /\ Mutated(Array_extend(val, ListOf(Iterables[i])), "extend")

DoPop ==
    /\ IsArray(val)
    /\ Unencoded
    /\ IsShort(val)
    /\ \E j \in 1..Len(Indices) : Mutated(Array_pop(val, Indices[j]), "pop")

DoCopy ==
    /\ IsArray(val)
    /\ Unencoded
    /\ IsShort(val)
    /\ Mutated(Array_copy(val), "copy")

DoSetItem ==
    /\ IsArray(val)
    /\ Unencoded
    /\ IsShort(val)
    /\ \E i \in 1..Len(Items), j \in 1..Len(Indices) :
          Mutated(list_setitem(val, Indices[j], Items[i]), "setitem")

DoIAdd ==
    /\ IsArray(val)
    /\ Unencoded
    /\ \E i \in 1..Len(Iterables) :
          /\ CanGrow(val, Len(ListOf(Iterables[i])))
          /\ Mutated(list_iadd(val, Iterables[i]), "iadd")

Next ==
    \/ DefineClass
    \/ Construct
    \/ SetAttr
    \/ DoSerialize
    \/ AddTail
    \/ Truncate
    \/ Feed
    \/ DoMeasure
    \/ DoDeserialize
    \/ DoEq
    \/ DoRepr
    \/ DoAppend
    \/ DoInsert
    \/ DoExtend
    \/ DoPop
    \/ DoCopy
    \/ DoSetItem
    \/ DoIAdd

Spec == Init /\ [][Next]_vars

(* ------------------------- the values the properties are about -------- *)

\* a is a prefix of b
IsPrefix(a, b) == Len(a) <= Len(b) /\ SubSeq(b, 1, Len(a)) = a

RECURSIVE InRange(_, _, _)

\* x is a value of the type with every part in range: an integer that fits
\* the width, a Boolean 0 or 1, a Char of one ASCII character (the documented
\* restriction of Char), a String of at most 65535 bytes, an Array of at most
\* 255 such items, a composite with every field of its map set to such a value
\* or to the raw int or str of one.  exact asks for an instance of the very
\* class; otherwise an instance of a subclass counts, as isinstance has it.
InRange(type, x, exact) ==
    /\ IF exact THEN x.cls = type ELSE IsInstance(x, type)
    /\ CASE Head(type) = "Boolean" -> x.v.mag \in {<<>>, <<1>>} /\ ~x.v.neg
         [] Head(type) \in SignedNames -> Fits(x.v, size(type), TRUE)
         [] Head(type) \in UnsignedNames -> ~x.v.neg /\ Fits(x.v, size(type), FALSE)
         [] Head(type) = "Char" -> Len(x.v) = 1 /\ x.v[1] < 128
         [] Head(type) = "String" ->
               LET encoded == encode(x.v)
               IN  encoded.ok /\ Len(encoded.val) < 256 * 256
         [] Head(type) = "Array" ->
               /\ Len(type) > 1
               /\ Len(x.v) < 256
               /\ \A i \in 1..Len(x.v) : InRange(Tail(type), x.v[i], exact)
         [] Head(type) \in ClassNames ->
               /\ ClassHasMap(type)
               /\ \A i \in 1..Len(ClassOf(Head(type)).map) :
                     LET f == ClassOf(Head(type)).map[i]
                     IN  /\ DictHas(x.v, f.name)
                         /\ LET value == DictGet(x.v, f.name)
                            IN  IF \/ value.cls = <<"int">> /\ Head(f.type) \in IntNames
                                   \/ value.cls = <<"str">> /\ Head(f.type) \in StrNames
                                THEN InRange(f.type, Mk(f.type, value.v), TRUE)
                                ELSE InRange(f.type, value, exact)
         [] OTHER -> FALSE

\* the instance sees the field-map its class statement computed
ObservesClassMap(x) ==
    LET m == GetAttr(x, "map")
    IN  /\ m.ok
        /\ m.val.cls = <<"dict">>
        /\ m.val.v = ClassOf(Head(x.cls)).map

\* a derived composite value with every field of its map set
IsDataValue(x) ==
    /\ IsDataInstance(x)
    /\ ObservesClassMap(x)
    /\ \A i \in 1..Len(ClassOf(Head(x.cls)).map) :
          DictHas(x.v, ClassOf(Head(x.cls)).map[i].name)

\* every field named in a's field-map compares equal between a and b
FieldsEqual(a, b) ==
    \A i \in 1..Len(ClassOf(Head(a.cls)).map) :
       LET name == ClassOf(Head(a.cls)).map[i].name
       IN  /\ GetAttr(b, name).ok
           /\ PyEq(GetAttr(a, name).val, GetAttr(b, name).val).ok
           /\ PyEq(GetAttr(a, name).val, GetAttr(b, name).val).val

\* an Array over the header's 255 items, a String over the header's 65535 bytes
IsOverlong(x) ==
    \/ IsArray(x) /\ Len(x.v) >= 256
    \/ x.cls = <<"String">> /\ encode(x.v).ok /\ Len(encode(x.v).val) >= 256 * 256

(* ------------------------- C1: round trip ------------------------------ *)

\* C1: for every in-range value v of a primitive or composite type T,
\* T.deserialize(T.serialize(v)) succeeds and equals v.
C1_RoundTrip ==
    (op = "deserialize" /\ wire.ok /\ buf = wire.val.v /\ InRange(val.cls, val, TRUE))
        => (res.ok /\ PyEq(res.val, val).ok /\ PyEq(res.val, val).val)

(* ------------------------- C2: measure consistency --------------------- *)

\* C2: for every value v of a type T, a composite whose field holds a
\* pre-built primitive instance included, and every trailing g,
\* T.measure(T.serialize(v) + g) is the length of T.serialize(v).
C2_MeasureConsistency ==
    (op = "measure" /\ wire.ok /\ IsPrefix(wire.val.v, buf)
                    /\ InRange(val.cls, val, FALSE))
        => (res.ok /\ res.val = Mk(<<"int">>, PyInt(Len(wire.val.v))))

(* ------------------------- C3: trailing bytes -------------------------- *)

\* C3: for every value v of a type T and every trailing g,
\* T.deserialize(T.serialize(v) + g) is T.deserialize(T.serialize(v)).
C3_TrailingBytesIgnored ==
    (op = "deserialize" /\ wire.ok /\ IsPrefix(wire.val.v, buf)
                        /\ InRange(val.cls, val, TRUE))
        => res = Deserialize(val.cls, wire.val.v)

(* ------------------------- C4: array homogeneity ----------------------- *)

\* C4: after construction and after any sequence of the mutating operations
\* (append, insert, extend, pop, copy, item assignment, +=), every element of
\* an Array[T] is an instance of T.
C4_ArrayHomogeneity ==
    IsArray(val) => \A i \in 1..Len(val.v) : IsInstance(val.v[i], Tail(val.cls))

(* ------------------------- C5: field-map stability --------------------- *)

\* C5: the field-map of a derived composite type is what its class statement
\* computed, whatever the field names are, and every instance observes that
\* map after any sequence of operations.
C5_FieldMapStable ==
    /\ \A i \in 1..Len(classes) : classes[i] = init_subclass(Decls[i])
    /\ IsDataInstance(val) => ObservesClassMap(val)
    /\ IsDataInstance(rhs) => ObservesClassMap(rhs)

(* ------------------------- C6: buffer underrun ------------------------- *)

\* C6: T.deserialize on a buffer shorter than the encoding the type requires
\* (a proper prefix of the encoding of an in-range value) raises an error.
C6_UnderrunFails ==
    (op = "deserialize" /\ wire.ok /\ Len(buf) < Len(wire.val.v)
                        /\ IsPrefix(buf, wire.val.v) /\ InRange(val.cls, val, TRUE))
        => ~res.ok

(* ------------------------- C7: structural equality --------------------- *)

\* C7: for two derived composite values a and b, of the same type or not,
\* a == b returns a boolean, true exactly when every field named in the
\* field-map compares equal between a and b.
C7_EqualityIsStructural ==
    (op = "eq" /\ IsDataValue(val) /\ IsDataValue(rhs))
        => (res.ok /\ res.val.v = FieldsEqual(val, rhs))

(* ------------------------- C8: header overflow ------------------------- *)

\* C8 as stated: serializing an Array of more than 255 items or a String of
\* more than 65535 bytes does not fail, and the header of the wire value is
\* the real count or length wrapped to the header's width.
C8_OverflowIsSilent ==
    (op = "serialize" /\ IsOverlong(val))
        => /\ wire.ok
           /\ IsArray(val) => wire.val.v[1] = Len(val.v) % 256
           /\ ~IsArray(val) =>
                 /\ wire.val.v[1] = (Len(wire.val.v) - 2) % 256
                 /\ wire.val.v[2] = ((Len(wire.val.v) - 2) \div 256) % 256

\* C8 as amended: an Array grows past 255 items without a size guard (append,
\* insert and extend fail only with the TypeError of an item that cannot be
\* coerced), and serializing an Array of more than 255 items or a String of
\* more than 65535 bytes fails with an OverflowError and yields no wire value.
C8_OverflowRaises ==
    /\ (op \in {"append", "insert", "extend"} /\ ~res.ok) => res.err = "TypeError"
    /\ (op = "serialize" /\ IsOverlong(val))
          => (wire = Err("OverflowError") /\ res = wire /\ buf = <<>>)

\* an Array appended to past 255 items, then serialized
C8_Witness ==
    /\ op = "serialize"
    /\ IsArray(val)
    /\ Len(val.v) = 256
    /\ val.v[256] = Mk(<<"UInt8">>, PyInt(2))
    /\ wire = Err("OverflowError")

(* ------------------------- C9: schema error ---------------------------- *)

\* C9: serialize, deserialize and measure on a composite mapped type without
\* a field-map fail with a ValueError on every buffer; a composite type with
\* an empty field-map serializes to the empty byte sequence and measures 0 on
\* every buffer.
C9_SchemaError ==
    /\ (IsComposite(val) /\ ~ClassHasMap(val.cls)
                         /\ op \in {"serialize", "deserialize", "measure"})
          => res = Err("ValueError")
    /\ (IsComposite(val) /\ ClassHasMap(val.cls)
                         /\ ClassOf(Head(val.cls)).map = <<>>)
          => /\ op = "serialize" => res = Ok(Mk(<<"bytes">>, <<>>))
             /\ op = "measure" => res = Ok(Mk(<<"int">>, PyInt(0)))

\* measure on a type without a field-map, handed a non-empty buffer
C9_Witness ==
    /\ val.cls = <<"X">>
    /\ op = "measure"
    /\ buf = <<3, 0, 1>>
    /\ res = Err("ValueError")

(* ------------------------- C10: pop ------------------------------------ *)

\* C10: a pop that succeeds removes the element at the index, keeps the order
\* of the others, and returns the removed element.
C10_PopReturnsRemoved ==
    [][(op' = "pop" /\ res'.ok)
          => \E i \in 1..Len(val.v) :
                /\ val'.v = SubSeq(val.v, 1, i - 1) \o SubSeq(val.v, i + 1, Len(val.v))
                /\ res'.val = val.v[i]]_vars
====
